---- MODULE Spec2Model ----
(***************************************************************************)
(* A model of the opentpu character device (driver/src/opentpu.c): one     *)
(* mutex taken by open and dropped by release, a 256-byte message buffer   *)
(* and a 16-bit messageSize that write sets and a successful read clears.  *)
(*                                                                         *)
(* Callers are sequential user processes, each with at most one open file  *)
(* on the device.  The VFS invokes .read/.write/.release only on a file    *)
(* whose .open returned 0, so those handlers are guarded by session[c].    *)
(***************************************************************************)
EXTENDS Integers, Sequences, FiniteSets, TLC

VARIABLES
    hardened,     \* the build's usercopy checks the object size of message[]
    ioMutex,      \* TRUE while ioMutex is locked
    session,      \* session[c]: caller c has an open file on the device
    message,      \* static char message[256]; message[i + 1] is C's message[i]
    messageSize,  \* static short messageSize
    overrun,      \* bytes the latest copy-in stored past the end of message[]
    delivered,    \* what the latest copy-out put in the caller's destination
    last,         \* the most recent open or release call
    written,      \* the latest write call of the current session
    reads,        \* the read calls made since (the last two of them)
    module,       \* where the module is in its life, and what mod_init returned
    registry,     \* the chrdev, class and device registrations
    pc,           \* pc[c]: the handler caller c is inside, "idle" when in none
    frame         \* frame[c]: the arguments and locals of that handler

\* The registrations and the handler positions; the file operations
\* leave both alone.
lifecycle == <<module, registry>>
inflight == <<pc, frame>>

vars == <<hardened, ioMutex, session, message, messageSize,
          overrun, delivered, last, written, reads, lifecycle, inflight>>

----------------------------------------------------------------------------
\* Bounds of the model.
NumCallers == 2

\* Program constants.
Capacity == 256
CharRange == 256
ShortRange == 65536
EBUSY == 16
EFAULT == 14

Callers == 1..NumCallers

\* Inputs: payloads are identified by a seed, byte i of payload s is
\* (s + i) mod 256, so position and origin of every byte are visible.
\* Payload[s] is as much of payload s as message[] can hold.
Seeds == {17, 101}
WriteLens == {0, 3, 256, 300, 40000, 65539}
ReadLens == {2, 256}
\* The write lengths of the step-by-step specification: one that fits
\* message[] and one that does not.
StepLens == {3, 300}

PayloadByte(seed, i) == (seed + i) % CharRange
Payload == [seed \in Seeds |-> [i \in 1..Capacity |-> PayloadByte(seed, i - 1)]]
Zeroes == [i \in 1..Capacity |-> 0]

Min(a, b) == IF a < b THEN a ELSE b

\* Where a faulting user copy of n bytes stops: the caller's memory is
\* accessible only as far as the next shorter length.
FaultAt(n) ==
    LET stops == {0} \cup WriteLens
    IN  {k \in stops : k < n /\ \A j \in stops : j < n => j <= k}

\* Conversion of a size_t to short (messageSize = len): the low 16 bits,
\* read as a two's complement value.
ToShort(n) ==
    LET r == n % ShortRange
    IN  IF r >= ShortRange \div 2 THEN r - ShortRange ELSE r

\* The registrations mod_init makes.  Each is held or not, and puts counts
\* the calls that released it.
Kinds == {"chrdev", "class", "device"}
NoRegistration == [k \in Kinds |-> [held |-> FALSE, puts |-> 0]]
Got(r, k) == [r EXCEPT ![k].held = TRUE]
Put(r, k) == [r EXCEPT ![k] = [held |-> FALSE, puts |-> @.puts + 1]]

register_chrdev(r) == Got(r, "chrdev")
class_create(r) == Got(r, "class")
device_create(r) == Got(r, "device")
unregister_chrdev(r) == Put(r, "chrdev")
\* class_unregister looks the class up among the registered ones and
\* does nothing when it is not there.
class_unregister(r) == IF r["class"].held THEN Put(r, "class") ELSE r
\* class_destroy(cls) is class_unregister(cls) for a valid pointer.
class_destroy(r) == class_unregister(r)
device_destroy(r) == Put(r, "device")

\* The step of mod_init that fails, "none" when all three succeed, and
\* the error it fails with.
InitFailures == {"none", "chrdev", "class", "device"}
ENOMEM == 12

Absent == [state |-> "absent", init |-> 0]
Live == [state |-> "live", init |-> 0]
Failed(err) == [state |-> "failed", init |-> err]

\* A caller inside no handler.
NoFrame == [seed |-> 0, len |-> 0, how |-> "none", k |-> 0, room |-> 0,
            size |-> 0, left |-> 0]

NoWrite == [seed |-> 0, len |-> 0, how |-> "none", ret |-> 0, size |-> 0]
NoCall == [op |-> "none", who |-> 0, ret |-> 0, held |-> FALSE, after |-> "none"]
Nothing == [bytes |-> <<>>, beyond |-> 0, room |-> 0]

----------------------------------------------------------------------------
\* User copies.  A copy of n bytes either completes ("ok"), stops at a
\* faulting user address after k bytes ("fault"), or is refused before a
\* byte moves ("refused"): on a build whose usercopy checks n against
\* sizeof(message) when n exceeds it, and on every build when n is a
\* negative short converted to unsigned long, which no user range holds.
\* Each returns the number of bytes not copied.  The driver itself never
\* compares a length with sizeof(message); what a copy longer than the
\* array does depends on the build, so both kinds of build are modelled.

CopyOutcomes(n) ==
    IF n < 0 THEN {<<"refused", 0>>}
    ELSE IF hardened /\ n > Capacity THEN {<<"refused", 0>>}
    ELSE {<<"ok", n>>} \cup {<<"fault", k>> : k \in FaultAt(n)}

\* copy_from_user(message, buffer, n): the first k bytes come from the
\* payload; on a fault the rest of the n destination bytes is zeroed.
\* What is stored past message[255] is counted, not kept.
copy_from_user(seed, n, how, k) ==
    LET extent == IF how = "refused" THEN 0 ELSE n
        copied == Min(k, Capacity)
        stored == Min(extent, Capacity)
    IN  [mem  |-> SubSeq(Payload[seed], 1, Min(copied, stored))
                  \o SubSeq(Zeroes, 1, stored - copied)
                  \o SubSeq(message, stored + 1, Capacity),
         over |-> extent - stored,
         left |-> n - (IF how = "refused" THEN 0 ELSE k)]

\* copy_to_user(buffer, message, n): k bytes reach the caller, those with
\* index >= 256 are read from whatever follows message[] in memory.
copy_to_user(n, how, k, room) ==
    LET got == IF how = "refused" THEN 0 ELSE k
    IN  [out  |-> [bytes  |-> SubSeq(message, 1, Min(got, Capacity)),
                   beyond |-> IF got > Capacity THEN got - Capacity ELSE 0,
                   room   |-> room],
         left |-> IF n < 0 THEN n ELSE n - got]

----------------------------------------------------------------------------
\* Bookkeeping of an open or release call: what was called, by whom,
\* what it returned, whether the mutex was locked at the call, and the
\* open or release before it.
Completed(c, op, ret) ==
    [op |-> op, who |-> c, ret |-> ret, held |-> ioMutex, after |-> last.op]

\* Bookkeeping of a read call: the outcome of its user copy, what it
\* returned and messageSize at the call, after the read before it.
Noted(how, ret) ==
    LET r == [how |-> how, ret |-> ret, size |-> messageSize]
    IN  IF Len(reads) < 2 THEN Append(reads, r) ELSE <<reads[2], r>>

Init ==
    /\ hardened \in BOOLEAN
    /\ ioMutex = FALSE
    /\ session = [c \in Callers |-> FALSE]
    /\ message = Zeroes
    /\ messageSize = 0
    /\ overrun = 0
    /\ delivered = Nothing
    /\ last = NoCall
    /\ written = NoWrite
    /\ reads = <<>>
    /\ module = Live
    /\ registry = device_create(class_create(register_chrdev(NoRegistration)))
    /\ pc = [c \in Callers |-> "idle"]
    /\ frame = [c \in Callers |-> NoFrame]

\* dev_open without the test of mutex_trylock's result: every open succeeds.
dev_open_ignoring_trylock(c) ==
    /\ ioMutex' = TRUE
    /\ session' = [session EXCEPT ![c] = TRUE]
    /\ last' = Completed(c, "open", 0)
    /\ written' = NoWrite
    /\ reads' = <<>>
    /\ delivered' = Nothing
    /\ UNCHANGED <<lifecycle, inflight, hardened, message, messageSize, overrun>>

\* dev_open with mutex_lock in place of mutex_trylock: the call waits
\* until the mutex is unlocked.
dev_open_waiting(c) ==
    /\ ~ioMutex
    /\ ioMutex' = TRUE
    /\ session' = [session EXCEPT ![c] = TRUE]
    /\ last' = Completed(c, "open", 0)
    /\ written' = NoWrite
    /\ reads' = <<>>
    /\ delivered' = Nothing
    /\ UNCHANGED <<lifecycle, inflight, hardened, message, messageSize, overrun>>

\* dev_open: mutex_trylock, -EBUSY when the mutex is already locked.
dev_open(c) ==
    /\ IF ~ioMutex
       THEN /\ ioMutex' = TRUE
            /\ session' = [session EXCEPT ![c] = TRUE]
            /\ last' = Completed(c, "open", 0)
            /\ written' = NoWrite
            /\ reads' = <<>>
            /\ delivered' = Nothing
       ELSE /\ last' = Completed(c, "open", -EBUSY)
            /\ UNCHANGED <<ioMutex, session, written, reads, delivered>>
    /\ UNCHANGED <<lifecycle, inflight, hardened, message, messageSize, overrun>>

\* dev_release without the mutex_unlock.
dev_release_keeping_lock(c) ==
    /\ session[c]
    /\ session' = [session EXCEPT ![c] = FALSE]
    /\ last' = Completed(c, "release", 0)
    /\ UNCHANGED <<lifecycle, inflight, hardened, ioMutex, message, messageSize, overrun, delivered,
                   written, reads>>

\* dev_release reachable by a caller that has no open file on the device.
dev_release_by_anyone(c) ==
    /\ ioMutex' = FALSE
    /\ session' = [session EXCEPT ![c] = FALSE]
    /\ last' = Completed(c, "release", 0)
    /\ UNCHANGED <<lifecycle, inflight, hardened, message, messageSize, overrun, delivered,
                   written, reads>>

\* dev_release that also empties the slot (messageSize = 0).
dev_release_clearing_slot(c) ==
    /\ session[c]
    /\ ioMutex' = FALSE
    /\ session' = [session EXCEPT ![c] = FALSE]
    /\ messageSize' = 0
    /\ last' = Completed(c, "release", 0)
    /\ UNCHANGED <<lifecycle, inflight, hardened, message, overrun, delivered, written, reads>>

\* dev_release: mutex_unlock, always returns 0.
dev_release(c) ==
    /\ session[c]
    /\ ioMutex' = FALSE
    /\ session' = [session EXCEPT ![c] = FALSE]
    /\ last' = Completed(c, "release", 0)
    /\ UNCHANGED <<lifecycle, inflight, hardened, message, messageSize, overrun, delivered,
                   written, reads>>

\* dev_write: copied_from_user = copy_from_user(message, buffer, len);
\* messageSize = len; a warning is printed when the copy failed; return len.
dev_write(c) ==
    /\ session[c]
    /\ \E seed \in Seeds, len \in WriteLens :
         \E o \in CopyOutcomes(len) :
           LET copied_from_user == copy_from_user(seed, len, o[1], o[2])
           IN  /\ message' = copied_from_user.mem
               /\ overrun' = copied_from_user.over
               /\ messageSize' = ToShort(len)
               /\ written' = [seed |-> seed, len |-> len, how |-> o[1],
                               ret |-> len, size |-> messageSize]
    /\ reads' = <<>>
    /\ delivered' = Nothing
    /\ UNCHANGED <<lifecycle, inflight, hardened, ioMutex, session, last>>

\* dev_read with messageSize cleared before error_count is tested.
dev_read_clearing_first(c) ==
    /\ session[c]
    /\ \E room \in ReadLens :
         \E o \in CopyOutcomes(messageSize) :
           LET copied == copy_to_user(messageSize, o[1], o[2], room)
               error_count == copied.left
           IN  /\ delivered' = copied.out
               /\ messageSize' = 0
               /\ reads' = Noted(o[1], IF error_count = 0 THEN 0 ELSE -EFAULT)
    /\ UNCHANGED <<lifecycle, inflight, hardened, ioMutex, session, message, overrun, last, written>>

\* dev_read copying len bytes, the size of the destination, instead of
\* messageSize bytes.
dev_read_copying_len(c) ==
    /\ session[c]
    /\ \E room \in ReadLens :
         \E o \in CopyOutcomes(room) :
           LET copied == copy_to_user(room, o[1], o[2], room)
               error_count == copied.left
           IN  /\ delivered' = copied.out
               /\ IF error_count = 0
                  THEN /\ messageSize' = 0
                       /\ reads' = Noted(o[1], 0)
                  ELSE /\ messageSize' = messageSize
                       /\ reads' = Noted(o[1], -EFAULT)
    /\ UNCHANGED <<lifecycle, inflight, hardened, ioMutex, session, message, overrun, last, written>>

\* dev_read: error_count = copy_to_user(buffer, message, messageSize);
\* when it is 0 clear messageSize and return 0, otherwise return -EFAULT.
dev_read(c) ==
    /\ session[c]
    /\ \E room \in ReadLens :
         \E o \in CopyOutcomes(messageSize) :
           LET copied == copy_to_user(messageSize, o[1], o[2], room)
               error_count == copied.left
           IN  /\ delivered' = copied.out
               /\ IF error_count = 0
                  THEN /\ messageSize' = 0
                       /\ reads' = Noted(o[1], 0)
                  ELSE /\ messageSize' = messageSize
                       /\ reads' = Noted(o[1], -EFAULT)
    /\ UNCHANGED <<lifecycle, inflight, hardened, ioMutex, session, message, overrun, last, written>>

Next ==
    \E c \in Callers :
        \/ dev_open(c)
        \/ dev_release(c)
        \/ dev_write(c)
        \/ dev_read(c)

Spec == Init /\ [][Next]_vars

----------------------------------------------------------------------------
\* Loading and unloading.  mod_init and mod_exit run once each; fops has
\* no .owner, so an open file does not pin the module and mod_exit can
\* run while a session is open.  A new open reaches dev_open only while
\* the chrdev is registered; read, write and release of a file that is
\* still open are dispatched through the file's own f_op, so after
\* mod_exit they may still run.

InitLife ==
    /\ hardened \in BOOLEAN
    /\ ioMutex = FALSE
    /\ session = [c \in Callers |-> FALSE]
    /\ message = Zeroes
    /\ messageSize = 0
    /\ overrun = 0
    /\ delivered = Nothing
    /\ last = NoCall
    /\ written = NoWrite
    /\ reads = <<>>
    /\ module = Absent
    /\ registry = NoRegistration
    /\ pc = [c \in Callers |-> "idle"]
    /\ frame = [c \in Callers |-> NoFrame]

\* mod_init whose device_create branch returns without unregister_chrdev.
mod_init_leaving_chrdev(fail) ==
    /\ module.state = "absent"
    /\ ioMutex' = FALSE
    /\ IF fail = "chrdev"
       THEN /\ module' = Failed(-EBUSY)
            /\ registry' = registry
       ELSE IF fail = "class"
       THEN /\ module' = Failed(-ENOMEM)
            /\ registry' = unregister_chrdev(register_chrdev(registry))
       ELSE IF fail = "device"
       THEN /\ module' = Failed(-ENOMEM)
            /\ registry' = class_destroy(class_create(register_chrdev(registry)))
       ELSE /\ module' = Live
            /\ registry' = device_create(class_create(register_chrdev(registry)))
    /\ UNCHANGED <<inflight, hardened, session, message, messageSize, overrun,
                   delivered, last, written, reads>>

\* mod_init: mutex_init; register_chrdev, on failure return majorNumber;
\* class_create, on failure unregister_chrdev and return PTR_ERR;
\* device_create, on failure class_destroy, unregister_chrdev and return
\* PTR_ERR; otherwise return 0.
mod_init(fail) ==
    /\ module.state = "absent"
    /\ ioMutex' = FALSE
    /\ IF fail = "chrdev"
       THEN /\ module' = Failed(-EBUSY)
            /\ registry' = registry
       ELSE IF fail = "class"
       THEN /\ module' = Failed(-ENOMEM)
            /\ registry' = unregister_chrdev(register_chrdev(registry))
       ELSE IF fail = "device"
       THEN /\ module' = Failed(-ENOMEM)
            /\ registry' = unregister_chrdev(class_destroy(
                                class_create(register_chrdev(registry))))
       ELSE /\ module' = Live
            /\ registry' = device_create(class_create(register_chrdev(registry)))
    /\ UNCHANGED <<inflight, hardened, session, message, messageSize, overrun,
                   delivered, last, written, reads>>

\* mod_exit: device_destroy, class_unregister, class_destroy,
\* unregister_chrdev, mutex_destroy.  It does not look at ioMutex or at
\* open files, and mutex_destroy does not unlock.
mod_exit ==
    /\ module.state = "live"
    /\ registry' = unregister_chrdev(class_destroy(class_unregister(
                        device_destroy(registry))))
    /\ module' = [module EXCEPT !.state = "removed"]
    /\ UNCHANGED <<inflight, hardened, ioMutex, session, message, messageSize,
                   overrun, delivered, last, written, reads>>

\* An open(2) of the device: the VFS finds the driver's fops, and calls
\* dev_open, only while the chrdev is registered.
chrdev_open(c) ==
    /\ registry["chrdev"].held
    /\ dev_open(c)

NextLife ==
    \/ \E fail \in InitFailures : mod_init(fail)
    \/ mod_exit
    \/ \E c \in Callers :
          \/ chrdev_open(c)
          \/ dev_release(c)
          \/ dev_write(c)
          \/ dev_read(c)

SpecLife == InitLife /\ [][NextLife]_vars

----------------------------------------------------------------------------
\* The handlers step by step.  dev_write and dev_read each make a user
\* copy, which can sleep, and then update messageSize; here the copy and
\* what follows it are separate steps, so that steps of different
\* callers can interleave.  A caller is sequential: it is inside at most
\* one call, and the VFS releases a file only when no call on it is
\* running.

\* dev_write up to copy_from_user(message, buffer, len).
dev_write_copy(c) ==
    /\ session[c]
    /\ pc[c] = "idle"
    /\ \E seed \in Seeds, len \in StepLens :
         \E o \in CopyOutcomes(len) :
           LET copied_from_user == copy_from_user(seed, len, o[1], o[2])
           IN  /\ message' = copied_from_user.mem
               /\ overrun' = copied_from_user.over
               /\ frame' = [frame EXCEPT ![c] =
                              [NoFrame EXCEPT !.seed = seed, !.len = len,
                                              !.how = o[1], !.k = o[2],
                                              !.left = copied_from_user.left]]
    /\ pc' = [pc EXCEPT ![c] = "write"]
    /\ UNCHANGED <<lifecycle, hardened, ioMutex, session, messageSize,
                   delivered, last, written, reads>>

\* dev_write from messageSize = len to return len.
dev_write_return(c) ==
    /\ pc[c] = "write"
    /\ messageSize' = ToShort(frame[c].len)
    /\ written' = [seed |-> frame[c].seed, len |-> frame[c].len,
                    how |-> frame[c].how, ret |-> frame[c].len,
                    size |-> messageSize]
    /\ reads' = <<>>
    /\ delivered' = Nothing
    /\ pc' = [pc EXCEPT ![c] = "idle"]
    /\ frame' = [frame EXCEPT ![c] = NoFrame]
    /\ UNCHANGED <<lifecycle, hardened, ioMutex, session, message, overrun, last>>

\* dev_read up to error_count = copy_to_user(buffer, message, messageSize).
dev_read_copy(c) ==
    /\ session[c]
    /\ pc[c] = "idle"
    /\ \E room \in ReadLens :
         \E o \in CopyOutcomes(messageSize) :
           LET copied == copy_to_user(messageSize, o[1], o[2], room)
           IN  /\ delivered' = copied.out
               /\ frame' = [frame EXCEPT ![c] =
                              [NoFrame EXCEPT !.how = o[1], !.k = o[2],
                                              !.room = room,
                                              !.size = messageSize,
                                              !.left = copied.left]]
    /\ pc' = [pc EXCEPT ![c] = "read"]
    /\ UNCHANGED <<lifecycle, hardened, ioMutex, session, message, messageSize,
                   overrun, last, written, reads>>

\* dev_read from the test of error_count to its return.
dev_read_return(c) ==
    /\ pc[c] = "read"
    /\ LET error_count == frame[c].left
           ret == IF error_count = 0 THEN 0 ELSE -EFAULT
           r == [how |-> frame[c].how, ret |-> ret, size |-> frame[c].size]
       IN  /\ messageSize' = (IF error_count = 0 THEN 0 ELSE messageSize)
           /\ reads' = (IF Len(reads) < 2 THEN Append(reads, r)
                                           ELSE <<reads[2], r>>)
    /\ pc' = [pc EXCEPT ![c] = "idle"]
    /\ frame' = [frame EXCEPT ![c] = NoFrame]
    /\ UNCHANGED <<lifecycle, hardened, ioMutex, session, message, overrun,
                   delivered, last, written>>

\* open(2) and close(2) by a caller that is inside no call.
call_open(c) ==
    /\ pc[c] = "idle"
    /\ dev_open(c)

call_release(c) ==
    /\ pc[c] = "idle"
    /\ dev_release(c)

NextSteps ==
    \E c \in Callers :
        \/ call_open(c)
        \/ call_release(c)
        \/ dev_write_copy(c)
        \/ dev_write_return(c)
        \/ dev_read_copy(c)
        \/ dev_read_return(c)

SpecSteps == Init /\ [][NextSteps]_vars

----------------------------------------------------------------------------
\* C1 (exclusivity): in every reachable state at most one caller holds a
\* session, the mutex is locked exactly while one does, and an open issued
\* while the mutex was locked returned -EBUSY and gave its caller nothing.
C1_Exclusivity ==
    /\ Cardinality({c \in Callers : session[c]}) <= 1
    /\ ioMutex <=> (\E c \in Callers : session[c])
    /\ (last.op = "open" /\ last.held) => last.ret = -EBUSY
    /\ (last.op = "open" /\ last.ret = 0) => session[last.who]

\* A second caller opened while the first held the session and got -EBUSY.
C1_Witness ==
    /\ last.op = "open" /\ last.held /\ last.ret = -EBUSY
    /\ ~session[last.who]
    /\ \E c \in Callers : c # last.who /\ session[c]

\* C2 (gate release): a release returns 0 and leaves the mutex unlocked
\* with no session open; the open that comes next after a release succeeds
\* and holds the session.
C2_GateRelease ==
    /\ last.op = "release" =>
          /\ last.ret = 0
          /\ ~ioMutex
          /\ \A c \in Callers : ~session[c]
    /\ (last.op = "open" /\ last.after = "release") =>
          /\ last.ret = 0
          /\ session[last.who]

\* An open directly after a release succeeded.
C2_Witness ==
    /\ last.op = "open" /\ last.after = "release"
    /\ last.ret = 0 /\ session[last.who] /\ ioMutex

\* C3 (drain-on-read): after a write of payload m whose source was
\* readable, the read that follows (its destination writable) returns 0,
\* delivers the first min(len, 256) bytes of m and nothing else, and
\* leaves messageSize 0; the read directly after a successful read
\* returns 0 and delivers no byte.
C3_DrainOnRead ==
    /\ (/\ written.how \in {"ok", "refused"}
        /\ Len(reads) = 1
        /\ reads[1].how # "fault") =>
          /\ reads[1].ret = 0
          /\ delivered.bytes = SubSeq(Payload[written.seed], 1, Min(written.len, Capacity))
          /\ delivered.beyond = 0
          /\ messageSize = 0
    /\ (/\ Len(reads) = 2
        /\ reads[1].ret = 0
        /\ reads[2].how # "fault") =>
          /\ reads[2].ret = 0
          /\ delivered.bytes = <<>>
          /\ delivered.beyond = 0

\* C4 (capacity bound on storage): no copy-in stores a byte past
\* message[255].
C4_CapacityBound == overrun = 0

\* C5 (write result): a write whose source was readable returns
\* min(len, 256).
C5_WriteResult ==
    written.how \in {"ok", "refused"} => written.ret = Min(written.len, Capacity)

\* C6 (length invariant): 0 <= messageSize <= 256 in every reachable state.
C6_LengthInvariant == 0 <= messageSize /\ messageSize <= Capacity

\* C7 (overwrite): when payload b is written (source readable) over a
\* message a that was not read, the read that follows (destination
\* writable) returns 0 and delivers len(b) bytes, those of b.
C7_Overwrite ==
    (/\ written.how \in {"ok", "refused"}
     /\ written.size # 0
     /\ Len(reads) = 1
     /\ reads[1].how # "fault") =>
       /\ reads[1].ret = 0
       /\ Len(delivered.bytes) + delivered.beyond = written.len
       /\ delivered.bytes = SubSeq(Payload[written.seed], 1, Len(delivered.bytes))

\* C8 (no stale-data disclosure): a read delivers no byte from beyond
\* message[255], and no more bytes than the latest write stored.
C8_NoStaleData ==
    /\ delivered.beyond = 0
    /\ (written.how # "none" /\ Len(reads) > 0) =>
          Len(delivered.bytes) <= (IF written.how = "refused" THEN 0 ELSE written.len)

\* C9 (write copy fault): a write whose copy-in faulted returns -EFAULT
\* and leaves messageSize as it was at the call.
C9_WriteCopyFault ==
    (written.how = "fault" /\ reads = <<>>) =>
       /\ written.ret = -EFAULT
       /\ messageSize = written.size

\* C10 (read copy fault): a read returns -EFAULT exactly when its
\* copy-out failed, and then messageSize is what it was at the call; it
\* returns 0 and messageSize is 0 when the copy succeeded; and after a
\* write of m, a read that faulted and then a read that succeeded, the
\* second read has delivered all of m.
C10_ReadCopyFault ==
    /\ \A i \in 1..Len(reads) :
          reads[i].ret = (IF reads[i].how = "ok" THEN 0 ELSE -EFAULT)
    /\ Len(reads) > 0 =>
          LET r == reads[Len(reads)]
          IN  messageSize = (IF r.how = "ok" THEN 0 ELSE r.size)
    /\ (/\ written.how = "ok"
        /\ Len(reads) = 2
        /\ reads[1].how = "fault"
        /\ reads[1].size = written.len
        /\ reads[2].how = "ok") =>
          /\ Len(delivered.bytes) + delivered.beyond = written.len
          /\ delivered.bytes = SubSeq(Payload[written.seed], 1, Len(delivered.bytes))

\* A 3-byte message was written, a read of it faulted with -EFAULT and
\* the next read delivered the 3 bytes.
C10_Witness ==
    /\ written.how = "ok" /\ written.len = 3
    /\ Len(reads) = 2
    /\ reads[1].how = "fault" /\ reads[1].ret = -EFAULT /\ reads[1].size = 3
    /\ reads[2].how = "ok" /\ reads[2].ret = 0
    /\ Len(delivered.bytes) = 3
    /\ messageSize = 0

\* C11 (read result): a read whose copy-out succeeded returns the number
\* of bytes it delivered, which is messageSize at the call.
C11_ReadResult ==
    Len(reads) > 0 =>
       LET r == reads[Len(reads)]
       IN  r.how = "ok" =>
              /\ r.ret = r.size
              /\ r.ret = Len(delivered.bytes) + delivered.beyond

\* C12 (read bounded by destination): a read delivers at most as many
\* bytes as its len argument says the destination holds.
C12_ReadBounded ==
    Len(delivered.bytes) + delivered.beyond <= delivered.room

\* C13 (empty read): in every session, the reads made after the open with
\* no write since that open return 0 and deliver no byte.
C13_EmptyRead ==
    (written.how = "none" /\ Len(reads) > 0) =>
       /\ \A i \in 1..Len(reads) : reads[i].ret = 0
       /\ delivered.bytes = <<>>
       /\ delivered.beyond = 0

\* C13 as the code has it: release and open leave messageSize alone, so
\* a read with no write since the open finds what the sessions before
\* left.  In the first session, and in any session opened while
\* messageSize was 0, such reads return 0 and deliver no byte; otherwise
\* the first read that succeeds delivers the messageSize bytes left over.
C13_EmptyReadOnDrainedSlot ==
    (written.how = "none" /\ Len(reads) > 0) =>
       /\ (last.op = "open" /\ last.after = "none") => reads[1].size = 0
       /\ reads[1].size = 0 =>
             /\ \A i \in 1..Len(reads) : reads[i].ret = 0 /\ reads[i].size = 0
             /\ delivered.bytes = <<>>
             /\ delivered.beyond = 0
       /\ (Len(reads) = 1 /\ reads[1].how = "ok") =>
             /\ Len(delivered.bytes) + delivered.beyond = reads[1].size
             /\ delivered.bytes = SubSeq(message, 1, Len(delivered.bytes))

\* A session opened after a release, on a slot that was drained, read
\* twice without writing: both reads returned 0 and delivered nothing.
C13_Witness ==
    /\ last.op = "open" /\ last.after = "release" /\ last.ret = 0
    /\ written.how = "none"
    /\ Len(reads) = 2
    /\ reads[1].size = 0 /\ reads[1].ret = 0 /\ reads[2].ret = 0
    /\ delivered.bytes = <<>>
    /\ message # Zeroes

\* C20 (stored length agrees with reported length): after a write,
\* messageSize equals the count the write returned, for every length.
C20_StoredLength ==
    (written.how # "none" /\ reads = <<>>) => messageSize = written.ret

\* C14 (gate transitions): the mutex goes from unlocked to locked only in
\* an open that returns 0 to a caller that had no session and has one
\* after; it goes from locked to unlocked only in a release by the caller
\* that had the session; an open that returns -EBUSY leaves the mutex
\* locked and every session as it was, so its caller gains no file from
\* which a release could come.
C14_GateTransitions ==
    [][ /\ (~ioMutex /\ ioMutex') =>
              /\ last'.op = "open" /\ last'.ret = 0
              /\ ~session[last'.who] /\ session'[last'.who]
        /\ (ioMutex /\ ~ioMutex') =>
              /\ last'.op = "release"
              /\ session[last'.who] /\ ~session'[last'.who]
        /\ (last' # last /\ last'.op = "open" /\ last'.ret = -EBUSY) =>
              /\ ioMutex /\ ioMutex'
              /\ session' = session
      ]_vars

\* An open was rejected while the holder had written a message, and the
\* holder still has its session and the mutex.
C14_Witness ==
    /\ last.op = "open" /\ last.ret = -EBUSY
    /\ ioMutex
    /\ written.how = "ok"
    /\ \E c \in Callers : c # last.who /\ session[c]

\* C15 (open never blocks): in every reachable state, whether or not the
\* mutex is locked, an open by any caller can take its one step, and
\* every open that was made returned 0 or -EBUSY; made while the mutex
\* was locked it returned -EBUSY.
C15_OpenNeverBlocks ==
    /\ \A c \in Callers : ENABLED dev_open(c)
    /\ last.op = "open" => last.ret \in {0, -EBUSY}
    /\ (last.op = "open" /\ last.held) => last.ret = -EBUSY

\* The holder keeps its session and goes on reading; the opens made
\* meanwhile, one after another, each returned -EBUSY.
C15_Witness ==
    /\ last.op = "open" /\ last.after = "open"
    /\ last.held /\ last.ret = -EBUSY
    /\ ioMutex
    /\ Len(reads) = 2

\* C19 (frame of the gate operations): a step that is an open (returning
\* 0 or -EBUSY) or a release leaves message and messageSize unchanged;
\* messageSize changes only while a session is open, in a write or in a
\* read that returns 0 and leaves it 0.  Hence what a session wrote and
\* did not read is in the slot when the next session opens.
C19_GateFrame ==
    [][ /\ last' # last =>
              /\ message' = message
              /\ messageSize' = messageSize
        /\ messageSize' # messageSize =>
              /\ last' = last
              /\ ioMutex /\ \E c \in Callers : session[c] /\ session'[c]
              /\ \/ /\ written'.how # "none" /\ reads' = <<>>
                    /\ messageSize' = ToShort(written'.len)
                 \/ /\ reads' # <<>> /\ reads' # reads
                    /\ reads'[Len(reads')].ret = 0
                    /\ messageSize' = 0
      ]_vars

\* A session wrote 3 bytes and closed without reading; the next session
\* has opened and the slot still holds those 3 bytes.
C19_Witness ==
    /\ last.op = "open" /\ last.after = "release" /\ last.ret = 0
    /\ written.how = "none" /\ reads = <<>>
    /\ messageSize = 3
    /\ \E seed \in Seeds : SubSeq(message, 1, 3) = SubSeq(Payload[seed], 1, 3)

\* C16 (registration failure is fatal and clean): when a step of mod_init
\* has failed, mod_init has returned a negative value, none of the three
\* registrations is held, each one that was made has been released once,
\* no caller has or can get a session, and no open has reached the
\* driver; mod_init returns 0 only with all three registrations held.
C16_RegistrationFailure ==
    /\ module.state = "failed" =>
          /\ module.init < 0
          /\ \A k \in Kinds : ~registry[k].held /\ registry[k].puts <= 1
          /\ \A c \in Callers : ~session[c] /\ ~ENABLED chrdev_open(c)
          /\ ~ioMutex
          /\ last = NoCall
    /\ module.init < 0 => module.state = "failed"
    /\ (module.state = "live" /\ module.init = 0) =>
          \A k \in Kinds : registry[k].held

\* device_create failed: mod_init returned the error after releasing the
\* class and the chrdev it had registered.
C16_Witness ==
    /\ module.state = "failed" /\ module.init = -ENOMEM
    /\ registry["chrdev"] = [held |-> FALSE, puts |-> 1]
    /\ registry["class"] = [held |-> FALSE, puts |-> 1]
    /\ registry["device"] = [held |-> FALSE, puts |-> 0]

\* C17 (shutdown with a session open): once mod_exit has run, the mutex is
\* unlocked, no caller has a session, and each registration is released,
\* by exactly one call.
C17_Shutdown ==
    module.state = "removed" =>
       /\ ~ioMutex
       /\ \A c \in Callers : ~session[c]
       /\ \A k \in Kinds : ~registry[k].held /\ registry[k].puts = 1

\* C18 (the gate is the lock): with sequential callers that read and
\* write only on their own open file, at most one caller is inside
\* dev_read or dev_write at any time and it holds the session; while it
\* is inside, no step of another caller changes message, messageSize or
\* what was delivered, and messageSize is still what its copy used when
\* it comes to update it.
C18_GateIsLock ==
    [][ /\ Cardinality({c \in Callers : pc'[c] # "idle"}) <= 1
        /\ \A c \in Callers :
              /\ pc'[c] # "idle" => session'[c] /\ ioMutex'
              /\ pc'[c] = "read" => frame'[c].size = messageSize'
              /\ pc[c] # "idle" =>
                    \/ /\ pc'[c] = "idle"
                       /\ \A d \in Callers \ {c} : pc'[d] = pc[d]
                    \/ /\ pc' = pc
                       /\ UNCHANGED <<message, messageSize, overrun, delivered,
                                      written, reads>>
      ]_vars

\* One caller is between the copy and the messageSize update of a write
\* while an open by another caller has just been rejected.
C18_Witness ==
    \E c \in Callers :
        /\ pc[c] = "write" /\ session[c]
        /\ last.op = "open" /\ last.ret = -EBUSY /\ last.who # c
        /\ messageSize # ToShort(frame[c].len)

====
